---- MODULE Spec2Model ----
(***************************************************************************)
(* Service discovery of miniDistributedSys: the registry (directory) with  *)
(* its add/remove and patch fan-out (registry/service.go, whose text is    *)
(* kept in src/README.md), and the client-side provider cache              *)
(* (src/registry/client.go).                                               *)
(*                                                                         *)
(* The registry is served by net/http: every request runs ServeHTTP in a   *)
(* goroutine of its own, so calls of add and remove interleave at every    *)
(* access to shared state.  A step of the model is one such access (a      *)
(* critical section under the lock, an unlocked read, a network send).     *)
(*                                                                         *)
(* reg.mu: every section under the write lock (add's append, remove's      *)
(* slice expression) holds no blocking call and is one step, enabled when  *)
(* no reader holds the lock; mu counts the readers, of which only          *)
(* sendRequireServices keeps the lock over a step (its http.Post).  A      *)
(* handler that stands before Lock() has not called it yet, so readers are *)
(* never held back by it.  remove reads reg.registrations without the     *)
(* lock: each such read is a step that sees the slice as it is then.       *)
(*                                                                         *)
(* Requests ServeHTTP answers without touching the registry (a body that   *)
(* does not decode, a method other than POST and DELETE) are left out.     *)
(*                                                                         *)
(* The caches of the services (prov) are other processes.  Spec and        *)
(* SpecRace are the registry alone and record what it sends; SpecCache is  *)
(* one cache and the patches it applies, SpecClient the same cache with    *)
(* Update and get as the goroutines of the service run them under          *)
(* prov.mutex; SpecSys is the registry with the handlers of the services,  *)
(* which apply what is sent; SpecLife is one run of service.Start of the   *)
(* grading service against that registry; SpecLive is the registry with   *)
(* fair scheduling of its handlers, for what a request is to reach.        *)
(***************************************************************************)
EXTENDS Integers, Sequences, FiniteSets, Bags, TLC

(***************************************************************************)
(* Bounds of the model.                                                    *)
(***************************************************************************)
\* number of HTTP requests (POST or DELETE) the registry receives in a run
MaxOps == 3

\* the same, in the runs of overlapping requests on a registry whose
\* services have no dependents
MaxRaceOps == 4

\* number of patches a provider cache receives in a run
MaxUpdates == 3

\* number of entries (Added and Removed together) of a received patch
MaxEntries == 2

(***************************************************************************)
(* Data: registration.go                                                   *)
(***************************************************************************)
LogService == "LogService"

GradingService == "GradingService"

\* a Registration value
Registration(name, url, req, upd) ==
    [ServiceName |-> name, ServiceURL |-> url,
     RequireServices |-> req, ServiceUpdateURL |-> upd]

\* the zero value of Registration: what a slot of a grown backing array holds
ZeroRegistration == Registration("", "", <<>>, "")

patchEntry(name, url) == [Name |-> name, URL |-> url]

patch(added, removed) == [Added |-> added, Removed |-> removed]

\* The request bodies ServeHTTP decodes in a run.  The registry takes any
\* Registration: that of a log service replica that lists its own kind among
\* the services it requires, that of the grading service, which requires
\* the log service (cmd/gradingservice/main.go), one without a name and one
\* without a URL.
RegLogPeer == Registration(LogService, "http://l:4000", <<LogService>>, "http://l:4000/services")

RegGrading == Registration(GradingService, "http://g:6000", <<LogService>>, "http://g:6000/services")

RegNoName == Registration("", "http://x:7000", <<>>, "http://x:7000/services")

RegNoURL == Registration(GradingService, "", <<>>, "http://y:8000/services")

RegPool == {RegLogPeer, RegGrading, RegNoName, RegNoURL}

PortalService == "PortalService"

\* The registrations of the repository's services: the log service requires
\* nothing, the portal requires the log service and the grading service.
RegLog == Registration(LogService, "http://l:4000", <<>>, "http://l:4000/services")

RegPortal ==
    Registration(PortalService, "http://p:5000", <<LogService, GradingService>>,
                 "http://p:5000/services")

\* the services that register in the runs with deliveries
SysPool == {RegLog, RegGrading, RegPortal}

\* the bodies of the DELETE requests of a run
URLPool == {RegLogPeer.ServiceURL, RegGrading.ServiceURL}

CallbackURLs == {r.ServiceUpdateURL : r \in RegPool \cup SysPool}

(***************************************************************************)
(* State                                                                   *)
(***************************************************************************)
VARIABLES
    registrations,  \* reg.registrations, a Go slice: [arr, len], cap = Len(arr)
    mu,             \* reg.mu: the number of goroutines holding the read lock
                    \* (a write lock is taken and released within one step)
    h,              \* the ServeHTTP goroutines: [pc, op] per handler
    ops,            \* the requests so far, by number: arguments, locals, result
    tasks,          \* the goroutines notify started that have a send left (bag)
    sent,           \* every sendPatch call so far (bag)
    prov,           \* prov.services of the service behind each callback URL
    ideal,          \* the list the calls so far should have produced
    upd,            \* the last patch a cache applied, and the cache before it
    inbox,          \* the patches that reached a callback's handler and wait
                    \* for it to run (bag)
    dropped,        \* the fan-out sends that failed, each with how (bag)
    pmutex,         \* prov.mutex of one service: [w, r], writer and readers
    cg,             \* the goroutines of that service that use prov
    applied,        \* the patches of the Update calls, in the order of Lock()
    svc             \* the run of service.Start of one service

\* the registry and what it sends
regvars == <<registrations, mu, h, ops, tasks, sent, ideal>>

\* one service's use of its cache
cachevars == <<pmutex, cg, applied>>

vars == <<registrations, mu, h, ops, tasks, sent, prov, ideal, upd,
          inbox, dropped, pmutex, cg, applied, svc>>

\* the goroutines net/http runs ServeHTTP in; a request takes the first free one
Handlers == {1, 2}

(***************************************************************************)
(* Go slices of Registration                                               *)
(***************************************************************************)
\* the elements of a slice, s[0:len]
Elems(s) == SubSeq(s.arr, 1, s.len)

Cap(s) == Len(s.arr)

Zeros(n) == [k \in 1..n |-> ZeroRegistration]

\* runtime.growslice (go1.22) for capacities below 256: double, or the needed
\* length when doubling is not enough.  Registration is 72 bytes and the
\* capacities met here (1, 2, 4, 8, 16) fill a size class exactly.
growCap(oldCap, newLen) ==
    IF newLen > 2 * oldCap THEN newLen ELSE 2 * oldCap

\* append(s[:at], src...): in place when it fits, else in a new array
appendAt(s, at, src) ==
    LET newLen == at + Len(src)
    IN  IF newLen <= Cap(s)
        THEN [arr |-> [k \in 1..Cap(s) |->
                          IF k > at /\ k <= newLen THEN src[k - at] ELSE s.arr[k]],
              len |-> newLen]
        ELSE [arr |-> SubSeq(s.arr, 1, at) \o src
                          \o Zeros(growCap(Cap(s), newLen) - newLen),
              len |-> newLen]

\* r.registrations = append(r.registrations, reg)
appendReg(s, reg) == appendAt(s, s.len, <<reg>>)

\* reg.registrations = append(reg.registrations[:i], r.registrations[:i+1]...)
\* with i counted from 0; r and reg are the same registry.  i+1 never exceeds
\* the capacity, which never shrinks, so neither slice expression panics.
removeSlice(s, i) == appendAt(s, i, SubSeq(s.arr, 1, i + 1))

\* the live registrations
Live == Elems(registrations)

(***************************************************************************)
(* The provider cache: providers.Update                                    *)
(***************************************************************************)
RECURSIVE addAll(_, _)
\* the loop over pat.Added
addAll(services, added) ==
    IF added = <<>> THEN services
    ELSE LET e == Head(added)
             s1 == IF e.Name \in DOMAIN services
                   THEN services
                   ELSE services @@ (e.Name :> <<>>)
         IN  addAll([s1 EXCEPT ![e.Name] = Append(@, e.URL)], Tail(added))

\* a removal that takes out every element equal to url
removeEveryURL(urls, url) == SelectSeq(urls, LAMBDA u : u # url)

\* append(providersURLs[:i], providersURLs[i+1:]...) at the first i with
\* providersURLs[i] == url
removeURL(urls, url) ==
    IF \E i \in 1..Len(urls) : urls[i] = url
    THEN LET i == CHOOSE j \in 1..Len(urls) :
                      urls[j] = url /\ \A k \in 1..(j - 1) : urls[k] # url
         IN  SubSeq(urls, 1, i - 1) \o SubSeq(urls, i + 1, Len(urls))
    ELSE urls

RECURSIVE removeAll(_, _)
\* the loop over pat.Removed
removeAll(services, removed) ==
    IF removed = <<>> THEN services
    ELSE LET e == Head(removed)
         IN  removeAll(IF e.Name \in DOMAIN services
                       THEN [services EXCEPT ![e.Name] = removeURL(@, e.URL)]
                       ELSE services,
                       Tail(removed))

Update(services, pat) == removeAll(addAll(services, pat.Added), pat.Removed)

(***************************************************************************)
(* The registry: registry/service.go (src/README.md, lines 119 to 399)     *)
(***************************************************************************)
\* what one http.Post of a patch can come to: the callback's handler ran and
\* applied the patch; the request failed (err != nil); or a response came
\* that is not 200 (no handler at the path, a bad method, a bad body), which
\* http.Post reports with err == nil
Outcomes == {"ok", "neterr", "nonok"}

EmptyPatch == patch(<<>>, <<>>)

NoEntry == patchEntry("", "")

\* the record of one request: its arguments, the requests running when it
\* came, the locals of add or remove, what it read, and the status ServeHTTP
\* answered ("" while it runs)
NewOp(kind, r, url, n) ==
    [kind |-> kind, reg |-> r, url |-> url, status |-> "",
     during |-> {h[q].op : q \in {q \in Handlers : h[q].pc # "idle"}},
     i |-> 0, n |-> n, entry |-> NoEntry, init |-> EmptyPatch,
     out |-> "", err |-> FALSE, wrote |-> FALSE, before |-> <<>>, snap |-> <<>>]

\* the patch notify's goroutine builds for one required service: the
\* entries of fullPatch with that name
wanted(fullPatch, reqService) ==
    patch(SelectSeq(fullPatch.Added, LAMBDA e : e.Name = reqService),
          SelectSeq(fullPatch.Removed, LAMBDA e : e.Name = reqService))

\* sendUpdate
sendUpdate(fullPatch, reqService) ==
    wanted(fullPatch, reqService) # EmptyPatch

RECURSIVE skip(_, _)
\* the iterations of the goroutine's loop over reg.RequireServices that send
\* nothing: what is left of the loop starts with a send, or is empty
skip(todo, fullPatch) ==
    IF todo = <<>> \/ sendUpdate(fullPatch, Head(todo)) THEN todo
    ELSE skip(Tail(todo), fullPatch)

RECURSIVE spawn(_, _, _)
\* notify's loop over r.registrations under the read lock: one goroutine per
\* registration.  A goroutine with nothing to send ends without any effect
\* and is not kept.
spawn(op, regs, fullPatch) ==
    IF regs = <<>> THEN EmptyBag
    ELSE LET todo == skip(Head(regs).RequireServices, fullPatch)
             rest == spawn(op, Tail(regs), fullPatch)
         IN  IF todo = <<>> THEN rest
             ELSE SetToBag({[op |-> op, to |-> Head(regs),
                             fullPatch |-> fullPatch, todo |-> todo]}) (+) rest

RECURSIVE required(_, _)
\* sendRequireServices' double loop: for each registration, for each
\* required service of reg, an entry when the names are equal
required(regs, req) ==
    IF regs = <<>> THEN <<>>
    ELSE LET s == Head(regs)
         IN  [k \in 1..Len(SelectSeq(req, LAMBDA q : q = s.ServiceName)) |->
                 patchEntry(s.ServiceName, s.ServiceURL)]
             \o required(Tail(regs), req)

\* the message of one sendPatch call
Msg(op, url, pat, kind) == [op |-> op, to |-> url, pat |-> pat, kind |-> kind]

\* the goroutine a new request runs in
free(p) == h[p].pc = "idle" /\ \A q \in Handlers : h[q].pc = "idle" => p <= q

\* what a removal is to do to the reference list of C1: the first entry
\* with this ServiceURL taken out, the others kept in order
withoutURL(regs, url) ==
    IF \E k \in 1..Len(regs) : regs[k].ServiceURL = url
    THEN LET k == CHOOSE j \in 1..Len(regs) :
                      regs[j].ServiceURL = url
                      /\ \A m \in 1..(j - 1) : regs[m].ServiceURL # url
         IN  SubSeq(regs, 1, k - 1) \o SubSeq(regs, k + 1, Len(regs))
    ELSE regs

\* The goroutines of one service that use prov: two requests served by
\* serviceUpdateHandler at the same time, and the caller of GetProvider.
Updaters == {"u1", "u2"}

Getter == "get"

\* a goroutine outside Update and get; n counts the calls of GetProvider
IdleG ==
    [pc |-> "idle", pat |-> EmptyPatch, k |-> 0, name |-> "", n |-> 0,
     seen |-> <<>>, providers |-> <<>>, res |-> "", url |-> ""]

\* service.Start of the grading service once startService has returned: its
\* two goroutines are started, the server is not listening yet, and main is
\* about to call RegisterService
Started ==
    [main |-> "start", regop |-> 0, srv |-> "new", cancelled |-> FALSE,
     a |-> "serve", adel |-> 0, b |-> "scan", bdel |-> 0]

Init ==
    /\ registrations = [arr |-> <<>>, len |-> 0]
    /\ mu = 0
    /\ h = [p \in Handlers |-> [pc |-> "idle", op |-> 0]]
    /\ ops = <<>>
    /\ tasks = EmptyBag
    /\ sent = EmptyBag
    /\ prov = [c \in CallbackURLs |-> <<>>]
    /\ ideal = <<>>
    /\ upd = [n |-> 0, cb |-> "", pat |-> EmptyPatch, before |-> <<>>]
    /\ inbox = EmptyBag
    /\ dropped = EmptyBag
    /\ pmutex = [w |-> FALSE, r |-> 0]
    /\ cg = [g \in Updaters \cup {Getter} |-> IdleG]
    /\ applied = <<>>
    /\ svc = Started

\* RegistryService.ServeHTTP, case http.MethodPost: the body decodes to r
Post(p, r) ==
    /\ free(p)
    /\ ops' = Append(ops, NewOp("add", r, "", 0))
    /\ h' = [h EXCEPT ![p] = [pc |-> "add_append", op |-> Len(ops) + 1]]
    /\ UNCHANGED <<registrations, mu, tasks, sent, prov, ideal, upd>>

\* registry.add: r.mu.Lock(); append; r.mu.Unlock()
AddAppend(p) ==
    /\ h[p].pc = "add_append"
    /\ mu = 0
    /\ registrations' = appendReg(registrations, ops[h[p].op].reg)
    /\ ideal' = Append(ideal, ops[h[p].op].reg)
    /\ ops' = [ops EXCEPT ![h[p].op].before = Live, ![h[p].op].wrote = TRUE]
    /\ h' = [h EXCEPT ![p].pc = "add_sync"]
    /\ UNCHANGED <<mu, tasks, sent, prov, upd>>

\* registry.sendRequireServices up to its http.Post: r.mu.RLock(), the
\* double loop, and the request sent
AddSync(p) ==
    /\ h[p].pc = "add_sync"
    /\ LET o == ops[h[p].op]
           pat == patch(required(Live, o.reg.RequireServices), <<>>)
       IN  /\ ops' = [ops EXCEPT ![h[p].op].init = pat]
           /\ sent' = sent (+) SetToBag({Msg(h[p].op, o.reg.ServiceUpdateURL,
                                            pat, "sync")})
    /\ mu' = mu + 1
    /\ h' = [h EXCEPT ![p].pc = "add_post"]
    /\ UNCHANGED <<registrations, tasks, prov, ideal, upd>>

\* registry.sendPatch returning into sendRequireServices, the deferred
\* r.mu.RUnlock(): only err != nil of http.Post is an error
AddPost(p, out) ==
    /\ h[p].pc = "add_post"
    /\ ops' = [ops EXCEPT ![h[p].op].out = out,
                          ![h[p].op].err = (out = "neterr")]
    /\ mu' = mu - 1
    /\ h' = [h EXCEPT ![p].pc = "add_notify"]
    /\ UNCHANGED <<registrations, tasks, sent, prov, ideal, upd>>

\* registry.add: r.notify(patch{Added: ...}), return err; ServeHTTP answers
\* 400 when err != nil and 200 otherwise
AddNotify(p) ==
    /\ h[p].pc = "add_notify"
    /\ LET o == ops[h[p].op]
           full == patch(<<patchEntry(o.reg.ServiceName, o.reg.ServiceURL)>>, <<>>)
       IN  /\ tasks' = tasks (+) spawn(h[p].op, Live, full)
           /\ ops' = [ops EXCEPT ![h[p].op].snap = Live,
                                 ![h[p].op].status =
                                     IF o.err THEN "BadRequest" ELSE "OK"]
    /\ h' = [h EXCEPT ![p] = [pc |-> "idle", op |-> 0]]
    /\ UNCHANGED <<registrations, mu, sent, prov, ideal, upd>>

\* RegistryService.ServeHTTP, case http.MethodDelete, and the head of
\* remove's loop: range evaluates reg.registrations once, without the lock
Delete(p, url) ==
    /\ free(p)
    /\ ops' = Append(ops, NewOp("remove", ZeroRegistration, url, registrations.len))
    /\ h' = [h EXCEPT ![p] = [pc |-> "rm_search", op |-> Len(ops) + 1]]
    /\ UNCHANGED <<registrations, mu, tasks, sent, prov, ideal, upd>>

\* one iteration of remove's loop: reg.registrations[i] is read without the
\* lock and indexes the slice as it is now (a run-time panic past its end:
\* net/http recovers it and drops the connection).  After the loop remove
\* returns the not-found error and ServeHTTP answers 500.
RmSearch(p) ==
    /\ h[p].pc = "rm_search"
    /\ LET o == ops[h[p].op]
       IN  IF o.i = o.n
           THEN /\ ops' = [ops EXCEPT ![h[p].op].status = "InternalServerError"]
                /\ h' = [h EXCEPT ![p] = [pc |-> "idle", op |-> 0]]
           ELSE IF o.i >= registrations.len
           THEN /\ ops' = [ops EXCEPT ![h[p].op].status = "panic"]
                /\ h' = [h EXCEPT ![p] = [pc |-> "idle", op |-> 0]]
           ELSE IF Live[o.i + 1].ServiceURL = o.url
           THEN /\ ops' = [ops EXCEPT ![h[p].op].entry =
                              patchEntry(Live[o.i + 1].ServiceName,
                                         Live[o.i + 1].ServiceURL)]
                /\ h' = [h EXCEPT ![p].pc = "rm_notify"]
           ELSE /\ ops' = [ops EXCEPT ![h[p].op].i = o.i + 1]
                /\ h' = h
    /\ UNCHANGED <<registrations, mu, tasks, sent, prov, ideal, upd>>

\* remove: r.notify(patch{Removed: ...}), before the entry is taken out
RmNotify(p) ==
    /\ h[p].pc = "rm_notify"
    /\ LET o == ops[h[p].op]
       IN  /\ tasks' = tasks (+) spawn(h[p].op, Live, patch(<<>>, <<o.entry>>))
           /\ ops' = [ops EXCEPT ![h[p].op].snap = Live]
    /\ h' = [h EXCEPT ![p].pc = "rm_remove"]
    /\ UNCHANGED <<registrations, mu, sent, prov, ideal, upd>>

\* remove: r.mu.Lock(); the slice expression; r.mu.Unlock(); return nil
RmRemove(p) ==
    /\ h[p].pc = "rm_remove"
    /\ mu = 0
    /\ registrations' = removeSlice(registrations, ops[h[p].op].i)
    /\ ideal' = withoutURL(ideal, ops[h[p].op].url)
    /\ ops' = [ops EXCEPT ![h[p].op].before = Live,
                          ![h[p].op].wrote = TRUE,
                          ![h[p].op].status = "OK"]
    /\ h' = [h EXCEPT ![p] = [pc |-> "idle", op |-> 0]]
    /\ UNCHANGED <<mu, tasks, sent, prov, upd>>

\* one send of a goroutine of notify: r.sendPatch(p, reg.ServiceUpdateURL);
\* an error is logged and ends the goroutine
NotifyGo(t, out) ==
    /\ BagIn(t, tasks)
    /\ LET pat == wanted(t.fullPatch, Head(t.todo))
           todo == skip(Tail(t.todo), t.fullPatch)
           less == tasks (-) SetToBag({t})
       IN  /\ sent' = sent (+) SetToBag({Msg(t.op, t.to.ServiceUpdateURL,
                                            pat, "fanout")})
           /\ tasks' = IF out = "neterr" \/ todo = <<>> THEN less
                       ELSE less (+) SetToBag({[t EXCEPT !.todo = todo]})
    /\ UNCHANGED <<registrations, mu, h, ops, prov, ideal, upd>>

\* serviceUpdateHandler.ServeHTTP of the service behind callback URL cb, for
\* a POST whose body decodes to pat: prov.Update(p), under the cache's lock
ServeUpdate(cb, pat) ==
    /\ prov' = [prov EXCEPT ![cb] = Update(@, pat)]
    /\ upd' = [n |-> upd.n + 1, cb |-> cb, pat |-> pat, before |-> prov[cb]]
    /\ UNCHANGED <<registrations, mu, h, ops, tasks, sent, ideal>>

(***************************************************************************)
(* The provider cache of one service under concurrent use: client.go       *)
(***************************************************************************)
\* the service whose cache is looked at
Cache == RegGrading.ServiceUpdateURL

\* the number of values rand.Float32() takes in the model: the draw is
\* d/RandSteps for d in Draws (2^24 values in math/rand/v2)
RandSteps == 8

Draws == 0..(RandSteps - 1)

\* an index one past the one drawn
indexPast(d, n) == (d * n) \div RandSteps + 1

\* idx := int(rand.Float32() * float32(len(providers)))
index(d, n) == (d * n) \div RandSteps

\* a lock that excludes no one
noLock(m) == TRUE

\* p.mutex.Lock() can return: no writer, no reader
canLock(m) == ~m.w /\ m.r = 0

\* p.mutex.RLock() can return: no writer
canRLock(m) == ~m.w

\* GetProvider panicked in main: the process is gone
crashed == cg[Getter].pc = "crashed"

\* the entries of a patch in the order Update goes through them
inOrder(pat) == pat.Added \o pat.Removed

\* serviceUpdateHandler.ServeHTTP up to prov.Update(p): the body decoded to pat
UpdCall(u, pat) ==
    /\ ~crashed
    /\ cg[u].pc = "idle"
    /\ cg' = [cg EXCEPT ![u].pc = "lock", ![u].pat = pat]
    /\ UNCHANGED <<prov, upd, pmutex, applied>>

\* Update: p.mutex.Lock()
UpdLock(u) ==
    /\ ~crashed
    /\ cg[u].pc = "lock"
    /\ canLock(pmutex)
    /\ pmutex' = [pmutex EXCEPT !.w = TRUE]
    /\ applied' = Append(applied, cg[u].pat)
    /\ cg' = [cg EXCEPT ![u].pc = "held", ![u].k = 1]
    /\ UNCHANGED <<prov, upd>>

\* Update: one iteration of the loop over pat.Added or, after it, of the
\* loop over pat.Removed
UpdEntry(u) ==
    /\ ~crashed
    /\ cg[u].pc = "held"
    /\ cg[u].k <= Len(inOrder(cg[u].pat))
    /\ LET k == cg[u].k
           pat == cg[u].pat
       IN  prov' = [prov EXCEPT ![Cache] =
                       IF k <= Len(pat.Added)
                       THEN addAll(@, <<pat.Added[k]>>)
                       ELSE removeAll(@, <<pat.Removed[k - Len(pat.Added)]>>)]
    /\ cg' = [cg EXCEPT ![u].k = @ + 1]
    /\ UNCHANGED <<upd, pmutex, applied>>

\* Update: the deferred p.mutex.Unlock(); the handler returns
UpdUnlock(u) ==
    /\ ~crashed
    /\ cg[u].pc = "held"
    /\ cg[u].k > Len(inOrder(cg[u].pat))
    /\ pmutex' = [pmutex EXCEPT !.w = FALSE]
    /\ cg' = [cg EXCEPT ![u] = IdleG]
    /\ UNCHANGED <<prov, upd, applied>>

\* GetProvider(name)
GetCall(name) ==
    /\ cg[Getter].pc = "idle"
    /\ cg' = [cg EXCEPT ![Getter] =
                 [IdleG EXCEPT !.pc = "rlock", !.name = name, !.n = cg[Getter].n + 1]]
    /\ UNCHANGED <<prov, upd, pmutex, applied>>

\* get: p.mutex.RLock()
GetRLock ==
    /\ cg[Getter].pc = "rlock"
    /\ canRLock(pmutex)
    /\ pmutex' = [pmutex EXCEPT !.r = @ + 1]
    /\ cg' = [cg EXCEPT ![Getter].pc = "read"]
    /\ UNCHANGED <<prov, upd, applied>>

\* get: providers, ok := p.services[name]; the error when !ok
GetRead ==
    /\ cg[Getter].pc = "read"
    /\ LET name == cg[Getter].name
           ok == name \in DOMAIN prov[Cache]
       IN  cg' = [cg EXCEPT ![Getter].seen = prov[Cache],
                            ![Getter].providers = IF ok THEN prov[Cache][name] ELSE <<>>,
                            ![Getter].res = IF ok THEN "" ELSE "notfound",
                            ![Getter].pc = IF ok THEN "index" ELSE "runlock"]
    /\ UNCHANGED <<prov, upd, pmutex, applied>>

\* get: the draw and return providers[idx], nil; an index out of range is a
\* run-time panic
GetIndex(d) ==
    /\ cg[Getter].pc = "index"
    /\ LET providers == cg[Getter].providers
           idx == index(d, Len(providers))
       IN  cg' = [cg EXCEPT ![Getter].res = IF idx < Len(providers) THEN "ok" ELSE "panic",
                            ![Getter].url = IF idx < Len(providers)
                                            THEN providers[idx + 1] ELSE "",
                            ![Getter].pc = "runlock"]
    /\ UNCHANGED <<prov, upd, pmutex, applied>>

\* get: the deferred p.mutex.RUnlock(), which runs when get panics, too; the
\* panic then ends the process, for GetProvider is called from main
GetRUnlock ==
    /\ cg[Getter].pc = "runlock"
    /\ pmutex' = [pmutex EXCEPT !.r = @ - 1]
    /\ cg' = [cg EXCEPT ![Getter].pc =
                 IF cg[Getter].res = "panic" THEN "crashed" ELSE "idle"]
    /\ UNCHANGED <<prov, upd, applied>>

(***************************************************************************)
(* Deliveries: the registry's sends reaching the caches                    *)
(***************************************************************************)
\* the message of sendRequireServices' send of request k
SyncMsg(k) == Msg(k, ops[k].reg.ServiceUpdateURL, ops[k].init, "sync")

\* the message of the next send of a goroutine of notify
TaskMsg(t) ==
    Msg(t.op, t.to.ServiceUpdateURL, wanted(t.fullPatch, Head(t.todo)), "fanout")

\* a send of notify's goroutine that did not get its patch applied: the
\* goroutine logs the error sendPatch returns, and sendPatch returns one
\* only when http.Post does
Failure(m, out) == [m |-> m, out |-> out, logged |-> (out = "neterr")]

\* sendRequireServices' request is on its way to the new service
SysAddSync(p) ==
    /\ AddSync(p)
    /\ inbox' = inbox (+) SetToBag({Msg(h[p].op, ops[h[p].op].reg.ServiceUpdateURL,
                                        ops'[h[p].op].init, "sync")})
    /\ UNCHANGED <<dropped, cachevars, svc>>

\* http.Post returns in sendPatch: with a response of the service's handler,
\* which has run by then, or without the request ever having reached it
SysAddPost(p, out) ==
    /\ h[p].pc = "add_post"
    /\ IF out = "ok"
       THEN ~BagIn(SyncMsg(h[p].op), inbox) /\ inbox' = inbox
       ELSE BagIn(SyncMsg(h[p].op), inbox)
            /\ inbox' = inbox (-) SetToBag({SyncMsg(h[p].op)})
    /\ AddPost(p, out)
    /\ UNCHANGED <<dropped, cachevars, svc>>

\* a send of a goroutine of notify: the request reaches the handler of the
\* dependent, or fails and is dropped.  (The goroutine's work ends with the
\* send: no registration of the runs requires a service twice.)
SysNotifyGo(t, out) ==
    /\ NotifyGo(t, out)
    /\ inbox' = IF out = "ok" THEN inbox (+) SetToBag({TaskMsg(t)}) ELSE inbox
    /\ dropped' = IF out = "ok" THEN dropped
                  ELSE dropped (+) SetToBag({Failure(TaskMsg(t), out)})
    /\ UNCHANGED <<cachevars, svc>>

\* the handler of the service behind m.to serves the request
Handle(m) ==
    /\ BagIn(m, inbox)
    /\ ServeUpdate(m.to, m.pat)
    /\ inbox' = inbox (-) SetToBag({m})
    /\ UNCHANGED <<dropped, cachevars, svc>>

(***************************************************************************)
(* A service's run: service/server.go, RegisterService, ShutdownService    *)
(***************************************************************************)
\* the service that runs service.Start: the grading service
Me == RegGrading

\* what the service's goroutines leave alone
elsewhere == <<inbox, dropped, cachevars>>

\* goroutine 1 of startService: srv.ListenAndServe() has the port
SvcListen ==
    /\ svc.a = "serve" /\ svc.srv = "new"
    /\ svc' = [svc EXCEPT !.srv = "listening"]
    /\ UNCHANGED <<regvars, prov, upd, elsewhere>>

\* srv.ListenAndServe() returns an error at once: the port is taken
SvcListenFails ==
    /\ svc.a = "serve" /\ svc.srv = "new"
    /\ svc' = [svc EXCEPT !.srv = "failed", !.a = "down"]
    /\ UNCHANGED <<regvars, prov, upd, elsewhere>>

\* srv.ListenAndServe() returns ErrServerClosed: srv.Shutdown was called
SvcServeEnds ==
    /\ svc.a = "serve" /\ svc.srv = "closed"
    /\ svc' = [svc EXCEPT !.a = "down"]
    /\ UNCHANGED <<regvars, prov, upd, elsewhere>>

\* goroutine 1: registry.ShutdownService(url) sends its DELETE
SvcServerDown(p) ==
    /\ svc.a = "down"
    /\ Delete(p, Me.ServiceURL)
    /\ svc' = [svc EXCEPT !.a = "wait", !.adel = Len(ops) + 1]
    /\ UNCHANGED elsewhere

\* goroutine 1: ShutdownService returns (an error is logged); cancel()
SvcServerDone ==
    /\ svc.a = "wait"
    /\ ops[svc.adel].status # ""
    /\ svc' = [svc EXCEPT !.a = "done", !.cancelled = TRUE]
    /\ UNCHANGED <<regvars, prov, upd, elsewhere>>

\* goroutine 2: fmt.Scanln returns (a key was pressed) and
\* registry.ShutdownService(url) sends its DELETE
SvcKey(p) ==
    /\ svc.b = "scan"
    /\ Delete(p, Me.ServiceURL)
    /\ svc' = [svc EXCEPT !.b = "wait", !.bdel = Len(ops) + 1]
    /\ UNCHANGED elsewhere

\* goroutine 2: ShutdownService returns; srv.Shutdown(ctx); cancel()
SvcKeyDone ==
    /\ svc.b = "wait"
    /\ ops[svc.bdel].status # ""
    /\ svc' = [svc EXCEPT !.b = "done", !.cancelled = TRUE,
                          !.srv = IF @ = "failed" THEN @ ELSE "closed"]
    /\ UNCHANGED <<regvars, prov, upd, elsewhere>>

\* Start: registry.RegisterService(reg) installs the update handler and
\* sends the registration
SvcRegister(p) ==
    /\ svc.main = "start"
    /\ Post(p, Me)
    /\ svc' = [svc EXCEPT !.main = "posted", !.regop = Len(ops) + 1]
    /\ UNCHANGED elsewhere

\* RegisterService returns: nil for a response with status 200, else an
\* error, which Start returns and for which main ends the process
\* (log.Fatalln), its goroutines with it
SvcRegistered ==
    /\ svc.main = "posted"
    /\ ops[svc.regop].status # ""
    /\ svc' = IF ops[svc.regop].status = "OK"
              THEN [svc EXCEPT !.main = "ok"]
              ELSE [svc EXCEPT !.main = "exit",
                               !.a = IF @ = "done" THEN @ ELSE "exit",
                               !.b = IF @ = "done" THEN @ ELSE "exit"]
    /\ UNCHANGED <<regvars, prov, upd, elsewhere>>

\* main: <-ctx.Done() returns and main returns: the process ends
SvcMainEnds ==
    /\ svc.main = "ok"
    /\ svc.cancelled
    /\ svc' = [svc EXCEPT !.main = "done",
                          !.a = IF @ = "done" THEN @ ELSE "exit",
                          !.b = IF @ = "done" THEN @ ELSE "exit"]
    /\ UNCHANGED <<regvars, prov, upd, elsewhere>>

\* the service's own server serves its callback URL
mine(url) == url = Me.ServiceUpdateURL

\* http.Post of the sync patch returns.  A response that is not 200 from the
\* service's callback URL comes from whoever holds the port instead of it.
LifeAddPost(p, out) ==
    /\ h[p].pc = "add_post"
    /\ (mine(ops[h[p].op].reg.ServiceUpdateURL) /\ out = "nonok") => svc.srv = "failed"
    /\ SysAddPost(p, out)

\* a send of a goroutine of notify; the service's handler gets it only
\* while its server listens
LifeNotifyGo(t, out) ==
    /\ (mine(t.to.ServiceUpdateURL) /\ out = "ok") => svc.srv = "listening"
    /\ (mine(t.to.ServiceUpdateURL) /\ out = "nonok") => svc.srv = "failed"
    /\ SysNotifyGo(t, out)

\* a handler serves a request; the service's server does while it listens
\* (a request it took before srv.Shutdown is served to the end)
LifeHandle(m) ==
    /\ mine(m.to) => \/ svc.srv = "listening"
                     \/ svc.srv = "closed" /\ m.kind = "fanout"
    /\ Handle(m)

(***************************************************************************)
(* Specifications                                                          *)
(***************************************************************************)
\* The registry under MaxOps requests of any kind, overlapping at will.
Next ==
    \/ \E p \in Handlers, r \in RegPool : Len(ops) < MaxOps /\ Post(p, r)
           /\ UNCHANGED <<inbox, dropped, cachevars, svc>>
    \/ \E p \in Handlers : AddAppend(p)
           /\ UNCHANGED <<inbox, dropped, cachevars, svc>>
    \/ \E p \in Handlers : AddSync(p)
           /\ UNCHANGED <<inbox, dropped, cachevars, svc>>
    \/ \E p \in Handlers, out \in Outcomes : AddPost(p, out)
           /\ UNCHANGED <<inbox, dropped, cachevars, svc>>
    \/ \E p \in Handlers : AddNotify(p)
           /\ UNCHANGED <<inbox, dropped, cachevars, svc>>
    \/ \E p \in Handlers, url \in URLPool : Len(ops) < MaxOps /\ Delete(p, url)
           /\ UNCHANGED <<inbox, dropped, cachevars, svc>>
    \/ \E p \in Handlers : RmSearch(p)
           /\ UNCHANGED <<inbox, dropped, cachevars, svc>>
    \/ \E p \in Handlers : RmNotify(p)
           /\ UNCHANGED <<inbox, dropped, cachevars, svc>>
    \/ \E p \in Handlers : RmRemove(p)
           /\ UNCHANGED <<inbox, dropped, cachevars, svc>>
    \/ \E t \in BagToSet(tasks), out \in Outcomes : NotifyGo(t, out)
           /\ UNCHANGED <<inbox, dropped, cachevars, svc>>

Spec == Init /\ [][Next]_vars

\* The registry under MaxRaceOps requests when the only service is the
\* grading service: nothing registered requires it and the log service it
\* requires never registers, so no goroutine of notify has a patch to send.
NextRace ==
    \/ \E p \in Handlers : Len(ops) < MaxRaceOps /\ Post(p, RegGrading)
           /\ UNCHANGED <<inbox, dropped, cachevars, svc>>
    \/ \E p \in Handlers : AddAppend(p)
           /\ UNCHANGED <<inbox, dropped, cachevars, svc>>
    \/ \E p \in Handlers : AddSync(p)
           /\ UNCHANGED <<inbox, dropped, cachevars, svc>>
    \/ \E p \in Handlers, out \in Outcomes : AddPost(p, out)
           /\ UNCHANGED <<inbox, dropped, cachevars, svc>>
    \/ \E p \in Handlers : AddNotify(p)
           /\ UNCHANGED <<inbox, dropped, cachevars, svc>>
    \/ \E p \in Handlers, url \in URLPool : Len(ops) < MaxRaceOps /\ Delete(p, url)
           /\ UNCHANGED <<inbox, dropped, cachevars, svc>>
    \/ \E p \in Handlers : RmSearch(p)
           /\ UNCHANGED <<inbox, dropped, cachevars, svc>>
    \/ \E p \in Handlers : RmNotify(p)
           /\ UNCHANGED <<inbox, dropped, cachevars, svc>>
    \/ \E p \in Handlers : RmRemove(p)
           /\ UNCHANGED <<inbox, dropped, cachevars, svc>>

SpecRace == Init /\ [][NextRace]_vars

\* the entries of the patches a cache receives
EntryPool ==
    {patchEntry(LogService, "http://l:4000"), patchEntry(LogService, "http://l:4001"),
     patchEntry(GradingService, "http://g:6000")}

SeqsUpTo(S, n) == UNION {[1..k -> S] : k \in 0..n}

PatchPool ==
    {pat \in [Added : SeqsUpTo(EntryPool, MaxEntries),
              Removed : SeqsUpTo(EntryPool, MaxEntries)] :
        Len(pat.Added) + Len(pat.Removed) <= MaxEntries}

\* One service's provider cache under MaxUpdates received patches.
NextCache ==
    \E pat \in PatchPool :
        /\ upd.n < MaxUpdates /\ ServeUpdate(RegGrading.ServiceUpdateURL, pat)
        /\ UNCHANGED <<inbox, dropped, cachevars, svc>>

SpecCache == Init /\ [][NextCache]_vars

\* the patches one service receives in the runs of SpecClient: at most one
\* Added and one Removed entry each, of the log service's instances
ClientPatches ==
    LET log == {e \in EntryPool : e.Name = LogService}
    IN  {patch(a, r) : a \in SeqsUpTo(log, 1), r \in SeqsUpTo(log, 1)} \ {EmptyPatch}

\* patches received, and calls of GetProvider, in a run of SpecClient
MaxApply == 2

MaxLookups == 2

\* One service's cache under MaxApply patches, served two at a time, and
\* MaxLookups calls of GetProvider, each any time.
NextClient ==
    \/ \E u \in Updaters, pat \in ClientPatches :
           /\ Len(applied) + Cardinality({v \in Updaters : cg[v].pc = "lock"}) < MaxApply
           /\ UpdCall(u, pat)
           /\ UNCHANGED <<regvars, inbox, dropped, svc>>
    \/ \E u \in Updaters : UpdLock(u) /\ UNCHANGED <<regvars, inbox, dropped, svc>>
    \/ \E u \in Updaters : UpdEntry(u) /\ UNCHANGED <<regvars, inbox, dropped, svc>>
    \/ \E u \in Updaters : UpdUnlock(u) /\ UNCHANGED <<regvars, inbox, dropped, svc>>
    \/ \E name \in {LogService, GradingService} :
           /\ cg[Getter].n < MaxLookups
           /\ GetCall(name)
           /\ UNCHANGED <<regvars, inbox, dropped, svc>>
    \/ GetRLock /\ UNCHANGED <<regvars, inbox, dropped, svc>>
    \/ GetRead /\ UNCHANGED <<regvars, inbox, dropped, svc>>
    \/ \E d \in Draws : GetIndex(d) /\ UNCHANGED <<regvars, inbox, dropped, svc>>
    \/ GetRUnlock /\ UNCHANGED <<regvars, inbox, dropped, svc>>

SpecClient == Init /\ [][NextClient]_vars

\* requests to the registry in a run of SpecSys
MaxSysOps == 3

\* The registry and the caches of the services: MaxSysOps requests, every
\* send delivered to the cache of its target or failing.
NextSys ==
    \/ \E p \in Handlers, r \in SysPool :
           /\ Len(ops) < MaxSysOps /\ Post(p, r)
           /\ UNCHANGED <<inbox, dropped, cachevars, svc>>
    \/ \E p \in Handlers : AddAppend(p) /\ UNCHANGED <<inbox, dropped, cachevars, svc>>
    \/ \E p \in Handlers : SysAddSync(p)
    \/ \E p \in Handlers, out \in Outcomes : SysAddPost(p, out)
    \/ \E p \in Handlers : AddNotify(p) /\ UNCHANGED <<inbox, dropped, cachevars, svc>>
    \/ \E p \in Handlers, r \in SysPool :
           /\ Len(ops) < MaxSysOps /\ Delete(p, r.ServiceURL)
           /\ UNCHANGED <<inbox, dropped, cachevars, svc>>
    \/ \E p \in Handlers : RmSearch(p) /\ UNCHANGED <<inbox, dropped, cachevars, svc>>
    \/ \E p \in Handlers : RmNotify(p) /\ UNCHANGED <<inbox, dropped, cachevars, svc>>
    \/ \E p \in Handlers : RmRemove(p) /\ UNCHANGED <<inbox, dropped, cachevars, svc>>
    \/ \E t \in BagToSet(tasks), out \in Outcomes : SysNotifyGo(t, out)
    \/ \E m \in BagToSet(inbox) : Handle(m)

SpecSys == Init /\ [][NextSys]_vars

\* One run of service.Start of the grading service, from the return of
\* startService to the end of the process, with the registry and a log
\* service that registers once, any time.
NextLife ==
    \/ SvcListen
    \/ SvcListenFails
    \/ SvcServeEnds
    \/ \E p \in Handlers : SvcServerDown(p)
    \/ SvcServerDone
    \/ \E p \in Handlers : SvcKey(p)
    \/ SvcKeyDone
    \/ \E p \in Handlers : SvcRegister(p)
    \/ SvcRegistered
    \/ SvcMainEnds
    \/ \E p \in Handlers :
           /\ \A k \in 1..Len(ops) : ops[k].reg # RegLog
           /\ Post(p, RegLog)
           /\ UNCHANGED <<inbox, dropped, cachevars, svc>>
    \/ \E p \in Handlers : AddAppend(p) /\ UNCHANGED <<inbox, dropped, cachevars, svc>>
    \/ \E p \in Handlers : SysAddSync(p)
    \/ \E p \in Handlers, out \in Outcomes : LifeAddPost(p, out)
    \/ \E p \in Handlers : AddNotify(p) /\ UNCHANGED <<inbox, dropped, cachevars, svc>>
    \/ \E p \in Handlers : RmSearch(p) /\ UNCHANGED <<inbox, dropped, cachevars, svc>>
    \/ \E p \in Handlers : RmNotify(p) /\ UNCHANGED <<inbox, dropped, cachevars, svc>>
    \/ \E p \in Handlers : RmRemove(p) /\ UNCHANGED <<inbox, dropped, cachevars, svc>>
    \/ \E t \in BagToSet(tasks), out \in Outcomes : LifeNotifyGo(t, out)
    \/ \E m \in BagToSet(inbox) : LifeHandle(m)

SpecLife == Init /\ [][NextLife]_vars

\* requests to the registry in a run of SpecLive
MaxLiveOps == 2

\* the next step of the request handler p runs: a statement of add or of
\* remove that is no http.Post.  Those that take r.mu wait while it is held.
HandlerStep(p) ==
    /\ \/ AddAppend(p)
       \/ AddSync(p)
       \/ AddNotify(p)
       \/ RmSearch(p)
       \/ RmNotify(p)
       \/ RmRemove(p)
    /\ UNCHANGED <<inbox, dropped, cachevars, svc>>

\* The registry under MaxLiveOps requests of the services of SysPool.
NextLive ==
    \/ \E p \in Handlers, r \in SysPool :
           /\ Len(ops) < MaxLiveOps /\ Post(p, r)
           /\ UNCHANGED <<inbox, dropped, cachevars, svc>>
    \/ \E p \in Handlers, r \in SysPool :
           /\ Len(ops) < MaxLiveOps /\ Delete(p, r.ServiceURL)
           /\ UNCHANGED <<inbox, dropped, cachevars, svc>>
    \/ \E p \in Handlers : HandlerStep(p)
    \/ \E p \in Handlers, out \in Outcomes : AddPost(p, out)
           /\ UNCHANGED <<inbox, dropped, cachevars, svc>>
    \/ \E t \in BagToSet(tasks), out \in Outcomes : NotifyGo(t, out)
           /\ UNCHANGED <<inbox, dropped, cachevars, svc>>

\* The Go scheduler runs every goroutine that can run, so a handler that is
\* not inside http.Post and not waiting for r.mu takes its next step.  An
\* http.Post need not return: sendPatch uses http.DefaultClient, which has
\* no timeout, so a callback that accepts the request and never answers
\* holds it for good.  That goes for the sends of notify's goroutines and
\* for the send of sendRequireServices alike.
SpecLive ==
    Init /\ [][NextLive]_vars /\ \A p \in Handlers : WF_vars(HandlerStep(p))

(***************************************************************************)
(* Properties                                                              *)
(***************************************************************************)
OpIds == 1..Len(ops)

Adds == {k \in OpIds : ops[k].kind = "add"}

Removes == {k \in OpIds : ops[k].kind = "remove"}

\* ServeHTTP has answered (or, for "panic", dropped) the request
Finished(k) == ops[k].status # ""

Malformed(r) == r.ServiceName = "" \/ r.ServiceURL = ""

Range(f) == {f[x] : x \in DOMAIN f}

\* the callback URLs request k has sent or is about to send a fan-out patch
\* to, with the number of patches for each (a bag), and those patches
FanoutTo(k) ==
    LET pending == {t \in BagToSet(tasks) : t.op = k}
        done == {m \in BagToSet(sent) : m.op = k /\ m.kind = "fanout"}
        urls == {t.to.ServiceUpdateURL : t \in pending} \cup {m.to : m \in done}
        count(S, B, u, f(_)) ==
            LET RECURSIVE sum(_)
                sum(T) == IF T = {} THEN 0
                          ELSE LET x == CHOOSE y \in T : TRUE
                               IN  (IF f(x) = u THEN CopiesIn(x, B) ELSE 0)
                                   + sum(T \ {x})
            IN  sum(S)
    IN  [u \in urls |->
            count(pending, tasks, u, LAMBDA t : t.to.ServiceUpdateURL)
            + count(done, sent, u, LAMBDA m : m.to)]

FanoutPatches(k) ==
    {wanted(t.fullPatch, Head(t.todo)) : t \in {t \in BagToSet(tasks) : t.op = k}}
    \cup {m.pat : m \in {m \in BagToSet(sent) : m.op = k /\ m.kind = "fanout"}}

\* the callback URLs of the registrations of a list that require a service,
\* each with the number of such registrations (a bag)
Dependents(regs, name) ==
    LET idx == {j \in 1..Len(regs) : name \in Range(regs[j].RequireServices)}
        urls == {regs[j].ServiceUpdateURL : j \in idx}
    IN  [u \in urls |-> Cardinality({j \in idx : regs[j].ServiceUpdateURL = u})]

\* a list without its element at position j
Without(regs, j) == SubSeq(regs, 1, j - 1) \o SubSeq(regs, j + 1, Len(regs))

\* C1: after any sequence of Add and Remove calls the live list is the
\* sequence of the added registrations with the entry of each removed
\* ServiceURL taken out: a Remove deletes that one entry, no other, doubles
\* none and keeps the order of the rest.
C1_LiveIsAddedMinusRemoved == Live = ideal

\* C2: in every reachable state of the registry no two entries of the live
\* list have the same ServiceURL.
C2_UniqueServiceURL ==
    \A i, j \in 1..Len(Live) :
        i # j => Live[i].ServiceURL # Live[j].ServiceURL

\* C3: a Remove of a ServiceURL that no Add has ever presented fails with the
\* not-found error (ServeHTTP answers 500), never writes the live list and
\* gives no patch to anyone.
C3_RemoveUnknownNotFound ==
    \A k \in Removes :
        (\A a \in Adds : ops[a].reg.ServiceURL # ops[k].url)
        => /\ ops[k].status \in {"", "InternalServerError"}
           /\ ~ops[k].wrote
           /\ ops[k].entry = NoEntry
           /\ FanoutTo(k) = <<>>

\* C4: an Add of a Registration with an empty ServiceName or an empty
\* ServiceURL is answered with an error, does not write the live list and
\* sends no patch.
C4_AddRejectsMalformed ==
    \A k \in Adds :
        Malformed(ops[k].reg)
        => /\ ops[k].status \in {"", "BadRequest"}
           /\ ~ops[k].wrote
           /\ \A m \in BagToSet(sent) : m.op # k
           /\ FanoutTo(k) = <<>>

\* the elements of a sequence with the number of times each occurs (a bag)
SeqToBag(q) == [e \in Range(q) |-> Cardinality({j \in 1..Len(q) : q[j] = e})]

\* the entries of the registrations of a list whose name is among req
Providers(regs, req) ==
    LET sel == SelectSeq(regs, LAMBDA r : r.ServiceName \in Range(req))
    IN  [j \in 1..Len(sel) |-> patchEntry(sel[j].ServiceName, sel[j].ServiceURL)]

\* a list without the last entry equal to r (the list itself when none is)
Others(regs, r) ==
    IF \E j \in 1..Len(regs) : regs[j] = r
    THEN Without(regs, CHOOSE j \in 1..Len(regs) :
                           regs[j] = r /\ \A m \in (j + 1)..Len(regs) : regs[m] # r)
    ELSE regs

\* C5: the initial patch of an Add has no Removed entry and as Added entries
\* exactly one {ServiceName, ServiceURL} for each instance registered before
\* this Add whose name is among the RequireServices of the new registration:
\* none for any other instance, none for the new registration itself.
C5_InitialPatchIsPriorProviders ==
    \A m \in BagToSet(sent) :
        m.kind = "sync"
        => /\ m.pat.Removed = <<>>
           /\ SeqToBag(m.pat.Added)
                  = SeqToBag(Providers(ops[m.op].before, ops[m.op].reg.RequireServices))

\* C6: a successful Add of an instance {S, U} sends the patch {Added: [{S, U}],
\* Removed: []} to exactly the other live registrations that require S, and to
\* no one else: not to a registration that does not require S, not to the
\* new instance itself.
C6_AddFanoutToOtherDependents ==
    \A k \in Adds :
        ops[k].status = "OK"
        => /\ FanoutTo(k) = Dependents(Others(ops[k].snap, ops[k].reg),
                                       ops[k].reg.ServiceName)
           /\ FanoutPatches(k) \subseteq
                  {patch(<<patchEntry(ops[k].reg.ServiceName, ops[k].reg.ServiceURL)>>, <<>>)}

\* C7: the removal of a live instance {B, url1} sends the patch {Added: [],
\* Removed: [{B, url1}]} exactly once to every remaining live registration
\* that requires B, and to no one else: not to the removed instance, not to a
\* registration that does not require B.
C7_RemoveFanoutToRemainingDependents ==
    \A k \in Removes :
        ops[k].status = "OK"
        => /\ FanoutTo(k) = Dependents(Without(ops[k].snap, ops[k].i + 1),
                                       ops[k].entry.Name)
           /\ FanoutPatches(k) \subseteq {patch(<<>>, <<ops[k].entry>>)}

\* C8: a Remove looks its entry up, deletes it and enumerates its fan-out
\* targets on one and the same state of the live list, whatever Add and
\* Remove calls overlap it: the list it notifies from is the list it deletes
\* from, the index it found is still the entry of its URL, no dependent live
\* at the removal is left out, none is notified more often than it is
\* registered, and two overlapping Removes of one URL never both announce
\* the same entry to a dependent.
C8_RemoveUsesOneSnapshot ==
    /\ \A k \in Removes :
        ops[k].status = "OK"
        => LET o == ops[k]
               deps == Dependents(Without(o.before, o.i + 1), o.entry.Name)
               all == Dependents(o.before, o.entry.Name)
               got == FanoutTo(k)
           IN  /\ o.snap = o.before
               /\ o.i < Len(o.before)
               /\ o.before[o.i + 1].ServiceURL = o.url
               /\ DOMAIN deps \subseteq DOMAIN got
               /\ \A u \in DOMAIN got : u \in DOMAIN all /\ got[u] <= all[u]
    /\ \A k1, k2 \in Removes :
        (k1 \in ops[k2].during /\ ops[k1].url = ops[k2].url /\ ops[k1].i = ops[k2].i)
        => DOMAIN FanoutTo(k1) \cap DOMAIN FanoutTo(k2) = {}

\* C9: an Add is answered with an error exactly when the registration is
\* malformed or the initial-sync delivery failed (no response, or a response
\* that is not OK); after a failed delivery the registration is in the list
\* all the same and the delivery was tried once.
C9_AddErrorIffMalformedOrSyncFails ==
    \A k \in Adds :
        Finished(k)
        => /\ (ops[k].status = "BadRequest")
                  <=> (Malformed(ops[k].reg) \/ ops[k].out \in {"neterr", "nonok"})
           /\ ops[k].out # "ok"
                  => /\ ops[k].wrote
                     /\ Cardinality({m \in BagToSet(sent) : m.op = k /\ m.kind = "sync"}) = 1
                     /\ \A m \in BagToSet(sent) :
                            m.op = k /\ m.kind = "sync" => CopiesIn(m, sent) = 1

\* the URLs of the entries of a patch list for one name, in order
URLsFor(entries, name) ==
    LET sel == SelectSeq(entries, LAMBDA e : e.Name = name)
    IN  [j \in 1..Len(sel) |-> sel[j].URL]

\* a list without the first element equal to u
DropFirst(list, u) ==
    LET at == {j \in 1..Len(list) : list[j] = u}
    IN  IF at = {} THEN list
        ELSE LET first == CHOOSE j \in at : \A m \in at : j <= m
             IN  [j \in 1..(Len(list) - 1) |->
                     IF j < first THEN list[j] ELSE list[j + 1]]

RECURSIVE DropFirsts(_, _)
DropFirsts(list, us) ==
    IF us = <<>> THEN list
    ELSE DropFirsts(DropFirst(list, Head(us)), Tail(us))

\* C10: prov.Update(p) appends the URL of each Added entry to the end of the
\* list of its Name (making the key when there is none), then deletes for
\* each Removed entry the first element of the list of its Name equal to its
\* URL and keeps the others in order; a Removed entry without key or without
\* match changes nothing, and the lists of the names p does not mention stay
\* as they were.
C10_UpdateAppendsThenRemovesFirst ==
    upd.n > 0
    => LET old == upd.before
           new == prov[upd.cb]
           names == DOMAIN old \cup DOMAIN new
                      \cup {e.Name : e \in Range(upd.pat.Added) \cup Range(upd.pat.Removed)}
       IN  \A name \in names :
               LET added == URLsFor(upd.pat.Added, name)
                   removed == URLsFor(upd.pat.Removed, name)
                   was == IF name \in DOMAIN old THEN old[name] ELSE <<>>
               IN  /\ name \in DOMAIN new <=> (name \in DOMAIN old \/ added # <<>>)
                   /\ name \in DOMAIN new => new[name] = DropFirsts(was \o added, removed)

\* a patch that adds and removes the same URL reached a cache that held it
\* already, next to another URL: the first one is gone, the new one is last
C10_Witness ==
    /\ upd.n > 0
    /\ \E e \in Range(upd.pat.Added) \cap Range(upd.pat.Removed) :
        /\ e.Name \in DOMAIN upd.before
        /\ Len(upd.before[e.Name]) >= 2
        /\ upd.before[e.Name][1] = e.URL
        /\ prov[upd.cb][e.Name] = Tail(upd.before[e.Name]) \o <<e.URL>>

\* the call of GetProvider has the result of get
Looked == cg[Getter].res # ""

\* the list get found for its name (none when the name is no key)
Found ==
    IF cg[Getter].name \in DOMAIN cg[Getter].seen
    THEN cg[Getter].seen[cg[Getter].name]
    ELSE <<>>

\* C11: GetProvider(name) fails with the not-found error whenever the cache
\* holds no URL for name, be it that the name was never added or that every
\* URL added for it has been removed again; it neither panics nor returns a
\* URL then.
C11_LookupOfNoURLIsNotFound ==
    (Looked /\ Found = <<>>)
    => /\ cg[Getter].res = "notfound"
       /\ cg[Getter].url = ""

\* C12: when the cache holds at least one URL for name, GetProvider(name)
\* succeeds with an element of the list the cache holds at the call, every
\* element of that list is the result of some draw, and the cache is, as
\* long as get works, what it was when get read it.
C12_LookupReturnsElementOfList ==
    /\ (Looked /\ Found # <<>>)
       => /\ cg[Getter].res = "ok"
          /\ cg[Getter].url \in Range(Found)
    /\ cg[Getter].pc \in {"index", "runlock"}
       => /\ prov[Cache] = cg[Getter].seen
          /\ cg[Getter].providers = Found
    /\ cg[Getter].pc = "index"
       => \A j \in 1..Len(Found) : \E d \in Draws : index(d, Len(Found)) = j - 1

\* GetProvider returned the second of two URLs of a list
C12_Witness ==
    /\ cg[Getter].res = "ok"
    /\ Len(Found) = 2
    /\ Found[1] # Found[2]
    /\ cg[Getter].url = Found[2]
    /\ prov[Cache] = cg[Getter].seen

RECURSIVE Serially(_, _)
\* the cache after the Update calls of a list of patches, one after the other
Serially(services, pats) ==
    IF pats = <<>> THEN services
    ELSE Serially(Update(services, Head(pats)), Tail(pats))

\* C14: Update and get are atomic with respect to each other.  Whatever the
\* interleaving of the calls, the cache is, whenever no Update is at work,
\* the result of the Update calls so far run one at a time in the order
\* they took the lock (so no Added entry is lost and no Removed entry takes
\* out more than one element), and what a get reads is such a result, too:
\* never a patch applied in part.
C14_UpdateAndGetAreAtomic ==
    /\ ~pmutex.w => prov[Cache] = Serially(<<>>, applied)
    /\ pmutex.w => pmutex.r = 0 /\ Cardinality({u \in Updaters : cg[u].pc = "held"}) = 1
    /\ cg[Getter].pc \in {"index", "runlock"}
       => \E n \in 0..Len(applied) :
              cg[Getter].seen = Serially(<<>>, SubSeq(applied, 1, n))

\* an Update is in the middle of a patch of two entries while the other
\* Update and a get wait for the lock
C14_Witness ==
    /\ \E u \in Updaters :
        /\ cg[u].pc = "held"
        /\ cg[u].k = 2
        /\ Len(inOrder(cg[u].pat)) = 2
        /\ \E v \in Updaters \ {u} : cg[v].pc = "lock"
    /\ cg[Getter].pc = "rlock"

\* nothing is left to do once the calls stop: no request is being served,
\* no goroutine of notify has a send left, no patch waits for a handler
Settled ==
    /\ \A p \in Handlers : h[p].pc = "idle"
    /\ tasks = EmptyBag
    /\ inbox = EmptyBag

\* no delivery has failed
AllDelivered ==
    /\ dropped = EmptyBag
    /\ \A k \in Adds : ops[k].out = "ok"

\* the URLs a service's cache holds for a name
Cached(cb, name) ==
    IF name \in DOMAIN prov[cb] THEN Range(prov[cb][name]) ELSE {}

\* the URLs of the instances of a name in a list, but for the one at position j
InstancesBut(regs, name, j) ==
    {regs[m].ServiceURL : m \in {m \in 1..Len(regs) : m # j /\ regs[m].ServiceName = name}}

\* C13: once the Add and Remove calls have stopped and every patch sent has
\* been delivered and applied, none having failed, the cache of every live
\* registration D holds for every service S that D requires exactly the
\* URLs of the live instances of S other than D.
C13_SettledCachesMatchLiveList ==
    (Settled /\ AllDelivered)
    => \A j \in 1..Len(Live) :
           \A name \in Range(Live[j].RequireServices) :
               Cached(Live[j].ServiceUpdateURL, name) = InstancesBut(Live, name, j)

\* the position of the first entry of a list with a ServiceURL, 0 for none
FirstAt(regs, url) ==
    LET at == {j \in 1..Len(regs) : regs[j].ServiceURL = url}
    IN  IF at = {} THEN 0 ELSE CHOOSE j \in at : \A m \in at : j <= m

\* add or remove of request k run alone on a slice: the slice after it and
\* the status of the request (an add fails as its delivery did)
Alone(s, k) ==
    IF ops[k].kind = "add"
    THEN [s |-> appendReg(s, ops[k].reg),
          status |-> IF ops[k].err THEN "BadRequest" ELSE "OK"]
    ELSE LET j == FirstAt(Elems(s), ops[k].url)
         IN  IF j = 0 THEN [s |-> s, status |-> "InternalServerError"]
             ELSE [s |-> removeSlice(s, j - 1), status |-> "OK"]

RECURSIVE OneByOne(_, _)
\* the requests of a list run one at a time from a slice: the list they
\* leave, and whether each had the status it had in the run
OneByOne(s, order) ==
    IF order = <<>> THEN [same |-> TRUE, list |-> Elems(s)]
    ELSE LET one == Alone(s, Head(order))
         IN  IF one.status # ops[Head(order)].status
             THEN [same |-> FALSE, list |-> <<>>]
             ELSE OneByOne(one.s, Tail(order))

\* the orders of the requests of a run
Orders == {f \in [OpIds -> OpIds] : \A a, b \in OpIds : f[a] = f[b] => a = b}

\* C15: add and remove exclude every reader and writer of the live list for
\* all they read, so whatever calls overlap, the list they leave and the
\* answers they get are those of the same calls run one at a time in some
\* order: no registration is lost, no remove works on an index that a
\* concurrent call has made stale.
C15_AddRemoveSerializable ==
    (\A p \in Handlers : h[p].pc = "idle")
    => \E f \in Orders :
           LET run == OneByOne([arr |-> <<>>, len |-> 0], f)
           IN  run.same /\ run.list = Live

\* C18: a fan-out send that fails, for want of a response or by a response
\* that is not OK, is logged and dropped.  The step in which it fails ends
\* the send to that one dependent and nothing else: it is logged, it is not
\* put back (no retry), the live list, the requests and their answers stay
\* as they are, and the goroutines and the patches under way to the other
\* dependents are untouched.
C18_FailedFanoutIsLoggedAndDropped ==
    [][dropped' # dropped
       => \E t \in BagToSet(tasks) :
              /\ \E out \in Outcomes \ {"ok"} :
                     dropped' = dropped (+) SetToBag({[m |-> TaskMsg(t), out |-> out,
                                                       logged |-> TRUE]})
              /\ tasks' = tasks (-) SetToBag({t})
              /\ sent' = sent (+) SetToBag({TaskMsg(t)})
              /\ UNCHANGED <<registrations, ideal, mu, h, ops, inbox, prov>>]_vars

\* the patches of one entry
Singles ==
    {patch(<<e>>, <<>>) : e \in EntryPool} \cup {patch(<<>>, <<e>>) : e \in EntryPool}

\* C19: applying an Added entry {N, u} to a cache whose list for N holds u
\* already leaves the cache as it is: the list for N does not grow, so the
\* same Added patch applied twice gives what it gives applied once.
C19_AddedIsIdempotent ==
    (/\ upd.n > 0
     /\ upd.pat.Removed = <<>>
     /\ Len(upd.pat.Added) = 1
     /\ upd.pat.Added[1].Name \in DOMAIN upd.before
     /\ upd.pat.Added[1].URL \in Range(upd.before[upd.pat.Added[1].Name]))
    => prov[upd.cb] = upd.before

\* what a cache holds, the order within the lists left aside: each name and
\* URL with the number of times the URL is in the list of the name
Contents(services) ==
    {<<name, u, Cardinality({j \in 1..Len(services[name]) : services[name][j] = u})>> :
        name \in DOMAIN services, u \in {e.URL : e \in EntryPool}}
    \ {<<name, u, 0>> : name \in DOMAIN services, u \in {e.URL : e \in EntryPool}}

\* C20: patches of one entry give the same cache in whatever order they
\* arrive: the cache after a patch q and then a patch p holds what p and
\* then q would have given, so a Removed patch that overtakes the Added
\* patch of the same instance does not leave the URL in the cache.
C20_ArrivalOrderDoesNotMatter ==
    (upd.n > 0 /\ upd.pat \in Singles)
    => \A p \in Singles :
           Contents(Update(prov[upd.cb], p))
               = Contents(Update(Update(upd.before, p), upd.pat))

\* C16: RegisterService installs the update handler before it sends the
\* registration and add delivers the initial patch before it answers, so
\* when RegisterService, and with it service.Start, has returned without
\* error, the cache of the service holds every provider of its initial
\* patch (and GetProvider for a required service that was live finds one).
C16_RegisteredCacheHoldsInitialPatch ==
    svc.main = "ok"
    => \A e \in Range(ops[svc.regop].init.Added) :
           e.URL \in Cached(Me.ServiceUpdateURL, e.Name)

\* C17: a service that shuts down is deregistered.  Once its context is
\* done, its process has ended and the registry has answered every request
\* of the run, the live list holds no registration with the service's URL,
\* also when the HTTP server stopped at once, before or while the
\* registration was sent.
C17_ShutDownIsDeregistered ==
    (/\ svc.cancelled
     /\ svc.main \in {"done", "exit"}
     /\ \A p \in Handlers : h[p].pc = "idle")
    => \A j \in 1..Len(Live) : Live[j].ServiceURL # Me.ServiceURL

\* a handler whose http.Post of a patch has been sent and has not returned
Delivering(p) == h[p].pc = "add_post"

\* C21: no delivery of a patch is in progress while the delivering request
\* holds the registry's lock, for reading or for writing: while the
\* http.Post of a request has not returned the lock is free, so a request
\* of another caller that is about to take the lock in add or in remove is
\* never kept from it by a callback that does not answer, the callback of
\* the new registrant during the initial sync included.
C21_NoDeliveryUnderLock ==
    \A p \in Handlers :
        Delivering(p) => mu = 0

\* C22: add and remove do not wait for the deliveries of the fan-out.  A
\* remove is always answered, and an add is answered once its initial-sync
\* delivery has completed or failed, also when no send of notify's
\* goroutines ever returns: the only delivery a request waits for is the
\* initial-sync delivery of its own add.
C22_RequestsDoNotWaitForFanout ==
    \A k \in 1..MaxLiveOps :
        (Len(ops) >= k /\ (ops[k].kind = "remove" \/ ops[k].out # ""))
            ~> (Len(ops) >= k /\ ops[k].status # "")

\* the deregistration requests for the service's URL that reached the registry
Deregistrations == {k \in Removes : ops[k].url = Me.ServiceURL}

\* C23: in one shutdown of a service run by service.Start, whether a key
\* was pressed or the HTTP server stopped, at most one deregistration
\* request for the service's URL is sent to the registry; so no request of
\* the shutdown is answered not-found after another has been sent, and the
\* removal of the instance is fanned out at most once.
C23_OneDeregistrationPerShutdown ==
    Cardinality(Deregistrations) <= 1

====
